---- MODULE Spec2Model ----
(***************************************************************************)
(* The lock-based ApiRateLimiter (src/src/api-rate-limiter.ts) together    *)
(* with its AsyncLock (src/unnamed/part_001), run on the JavaScript job    *)
(* model: every step of the model is one job of the event loop (a caller's *)
(* synchronous call, one promise job of the microtask queue, or one timer  *)
(* callback), executed from its resumption to its next suspension.         *)
(*                                                                         *)
(* Time is counted in units of the drain timer's delay (1000 ms).  The     *)
(* per-minute budget is kept in sixtieths of a token, so that the refill   *)
(* (elapsed / 60000) * maxPerMinute is exact: mpmCounter here is 60 times  *)
(* the program's mpmCounter, and elapsed is Date.now() - lastMpmRefill.    *)
(*                                                                         *)
(* Spec is the limiter under addRequest calls, LiveSpec the same under     *)
(* fair scheduling, StatusSpec adds getStatus calls, CtorSpec is the       *)
(* constructor applied to any options object, and RefillSpec the           *)
(* per-minute budget on its own.                                           *)
(*                                                                         *)
(* SwSpec is the sliding-window limiter (src/unnamed/part_002) and TrSpec  *)
(* the trickle-recovery limiter (src/src/ApiRateLimiter.ts).  The three    *)
(* classes name their common fields alike (timer, queue, the limits, the   *)
(* counters), and the model keeps one variable for each name: every        *)
(* specification runs one class.                                           *)
(***************************************************************************)
EXTENDS Integers, Sequences, FiniteSets, TLC

\* Number of addRequest calls a behaviour makes.
MaxRequests == 3
\* Number of addRequest calls a behaviour of the fair specification makes.
MaxLiveRequests == 2

\* The timer delay of timerTick, in ms; it is the unit of time of the model.
TICK_MS == 1000
\* The refill period of refillMpmCounter, in ms.
MINUTE_IN_MS == 60000
\* One minute, and the timer's delay, in units of time.
Minute == MINUTE_IN_MS \div TICK_MS
TickDelay == TICK_MS \div TICK_MS

\* The options the limiter is constructed with (all pass the constructor's
\* validation: 0 < maxPerSecond <= maxPerMinute).
Configs ==
  { [maxPerSecond |-> 1, maxPerMinute |-> 2, maxQueueSize |-> 1],
    [maxPerSecond |-> 2, maxPerMinute |-> 3, maxQueueSize |-> 2] }
\* The options of the fair specification: one token per minute makes a
\* second request wait in the queue for the refill.
LiveConfigs ==
  { [maxPerSecond |-> 1, maxPerMinute |-> 1, maxQueueSize |-> 1],
    [maxPerSecond |-> 2, maxPerMinute |-> 3, maxQueueSize |-> 2] }

\* Number of addRequest calls of a behaviour in which a request is
\* submitted while the tick of a timeout awaits a request it has released.
MaxBlockRequests == 4

\* Number of addRequest calls a behaviour of the sliding-window limiter
\* makes.
MaxSwRequests == 4
MaxSwLiveRequests == 2
\* The longest a pass of the sliding-window limiter lasts, in units of time:
\* every work function has settled by then.
MaxPassTime == 2

\* The sliding-window limiter: its per-second window and the default of its
\* processInterval option, in ms and in units of time.
SECOND_IN_MS == 1000
DEFAULT_PROCESS_INTERVAL == 1000
Second == SECOND_IN_MS \div TICK_MS
ProcessInterval == DEFAULT_PROCESS_INTERVAL \div TICK_MS

\* Number of addRequest calls a behaviour of the trickle-recovery limiter
\* makes, and the options it is constructed with.
MaxTrRequests == 3
TrConfigs ==
  { [maxPerSecond |-> 1, maxPerMinute |-> 2, maxQueueSize |-> 1],
    [maxPerSecond |-> 2, maxPerMinute |-> 5, maxQueueSize |-> 2] }

\* The options the sliding-window limiter is constructed with.
SwConfigs ==
  { [maxPerSecond |-> 1, maxPerMinute |-> 2, maxQueueSize |-> 1],
    [maxPerSecond |-> 2, maxPerMinute |-> 5, maxQueueSize |-> 3] }

Larger(a, b) == IF a >= b THEN a ELSE b
Ids == 1..Larger(Larger(MaxRequests, MaxBlockRequests), MaxSwRequests)

\* The defaults of the constructor's options.
DEFAULT_MAX_PER_SECOND == 100
DEFAULT_MAX_PER_MINUTE == 1000
DEFAULT_MAX_QUEUE_SIZE == 10000

\* Largest option value the constructor is called with.
MaxOption == 2

\* The refill on its own: the largest maxPerMinute, and the longest time
\* between two refills, in units of time.
MaxRefillPerMinute == 10
MaxRefillElapsed == 61

\* Number of addRequest and of getStatus calls a behaviour of the
\* specification with getStatus makes.
MaxStatusRequests == 2
MaxStatusCalls == 2

\* Number of addRequest and of getStatus calls a behaviour of the
\* specification of the lock's progress makes.
MaxLockRequests == 2
MaxLockCalls == 1


VARIABLES
  options,        \* the options object the constructor is called with
  outcome,        \* of the constructor: "none" before it has run
  maxPerSecond, maxPerMinute, maxQueueSize,  \* the validated options
  timer,          \* this.timer: FALSE is null, TRUE is a timeout handle
  queue,          \* this.queue: the ids of the waiting QueueItems
  mpsCounter,     \* this.mpsCounter
  mpmCounter,     \* this.mpmCounter, in 1/Minute tokens
  elapsed,        \* Date.now() - this.lastMpmRefill
  locked,         \* tokenLock.locked
  waitingQueue,   \* tokenLock.waitingQueue
  early,          \* a waiter granted before its acquire() promise was adopted
  microtasks,     \* the promise job queue of the event loop
  batches,        \* the promises arrays the ticks in flight are awaiting
  armed,          \* timeouts scheduled by setTimeout, due one delay from now
  due,            \* timeouts that are due now
  numSubmitted,   \* addRequest calls made so far
  status,         \* where each request is
  result,         \* whether the promise returned by addRequest has settled
  invoked,        \* how often each request's work function was invoked
  settled,        \* how often resolve/reject was called for each request
  age,            \* time since the work function was invoked (-1: not yet)
  sync,           \* the caller's first synchronous job is still running
  burst,          \* addRequest calls made in that first job
  timerFired,     \* a timeout callback has run
  lastSettle,     \* the completion made by the job just run: request, calls
  numStatus,      \* getStatus calls made so far
  lastStatus,     \* what getStatus returns, in the job in which it returns
  writes,         \* the writes to the shared fields by the job just run
  immediate,      \* requests accepted with tokens at hand, not yet invoked
  isProcessing,   \* this.isProcessing of the sliding-window limiter
  lastSecondRequests,  \* its deques: the time since each recorded start,
  lastMinuteRequests,  \*   counted up to the deque's window
  pass,           \* processQueueHelper's locals, and the time since its now
  activeRequests  \* this.activeRequests of the trickle-recovery limiter

cfgVars == <<options, outcome, maxPerSecond, maxPerMinute, maxQueueSize>>
coreVars == <<timer, queue, mpsCounter, mpmCounter, elapsed>>
lockVars == <<locked, waitingQueue, early>>
loopVars == <<microtasks, batches, armed, due>>
histVars == <<numSubmitted, status, result, invoked, settled, age, sync,
              burst, timerFired, lastSettle, numStatus, lastStatus,
              writes, immediate>>
swVars == <<isProcessing, lastSecondRequests, lastMinuteRequests, pass>>
trVars == <<activeRequests>>
variantVars == <<swVars, trVars>>
vars == <<cfgVars, coreVars, lockVars, loopVars, histVars, variantVars>>

\* ---------------------------------------------------------------------------
\* Jobs and waiters

NoWaiter == [w |-> "none", r |-> 0, reg |-> FALSE]
NoPass == [avail |-> 0, i |-> 0, age |-> 0]
NoSettle == [r |-> 0, ok |-> TRUE, throws |-> FALSE, fx |-> << >>]
NoStatus ==
  [queueSize |-> 0 - 1, availableRequests |-> 0, mpsCounter |-> 0, mpmCounter |-> 0]
Waiter(w, r) == [w |-> w, r |-> r, reg |-> FALSE]
Job(k, w, r, ok) == [k |-> k, w |-> w, r |-> r, ok |-> ok]

Min(a, b) == IF a <= b THEN a ELSE b

\* Math.floor of the per-minute budget.
FloorMpm(mpm) == mpm \div Minute

\* ---------------------------------------------------------------------------
\* AsyncLock.  The lock and the job queue it feeds are threaded through the
\* operators as a record L = [locked, waitingQueue, early, microtasks].

LockState(lk, wq, ea, mt) ==
  [locked |-> lk, waitingQueue |-> wq, early |-> ea, microtasks |-> mt]

\* acquire(): a free lock is taken at once and the awaiting caller resumes in
\* a promise job; otherwise a waiter is pushed, and the promise the async
\* function returned adopts the waiter's promise in a job of its own.
Acquire(L, w, r) ==
  IF ~L.locked
    THEN [L EXCEPT !.locked = TRUE,
                   !.microtasks = Append(@, Job("cont", w, r, TRUE))]
    ELSE [L EXCEPT !.waitingQueue = Append(@, Waiter(w, r)),
                   !.microtasks = Append(@, Job("thenable", w, r, TRUE))]

\* release(): hand the lock to the first waiter, or free it.
Release_unlocked(L) ==
  IF Len(L.waitingQueue) > 0
    THEN LET next == Head(L.waitingQueue) IN
         IF next.reg
           THEN [L EXCEPT !.waitingQueue = Tail(@), !.locked = FALSE,
                          !.microtasks = Append(@, Job("relay", next.w, next.r, TRUE))]
           ELSE [L EXCEPT !.waitingQueue = Tail(@), !.locked = FALSE,
                          !.early = Waiter(next.w, next.r)]
    ELSE [L EXCEPT !.locked = FALSE]
Release_lifo(L) ==
  IF Len(L.waitingQueue) > 0
    THEN LET n == Len(L.waitingQueue)
             next == L.waitingQueue[n]
         IN
         IF next.reg
           THEN [L EXCEPT !.waitingQueue = SubSeq(@, 1, n - 1), !.locked = TRUE,
                          !.microtasks = Append(@, Job("relay", next.w, next.r, TRUE))]
           ELSE [L EXCEPT !.waitingQueue = SubSeq(@, 1, n - 1), !.locked = TRUE,
                          !.early = Waiter(next.w, next.r)]
    ELSE [L EXCEPT !.locked = FALSE]
Release_never(L) == L
Release(L) ==
  IF Len(L.waitingQueue) > 0
    THEN LET next == Head(L.waitingQueue) IN
         IF next.reg
           THEN [L EXCEPT !.waitingQueue = Tail(@), !.locked = TRUE,
                          !.microtasks = Append(@, Job("relay", next.w, next.r, TRUE))]
           ELSE [L EXCEPT !.waitingQueue = Tail(@), !.locked = TRUE,
                          !.early = Waiter(next.w, next.r)]
    ELSE [L EXCEPT !.locked = FALSE]

\* The job in which the promise returned by acquire() adopts the waiter's
\* promise: if the waiter was granted meanwhile the grant is relayed now,
\* otherwise the first such waiter is marked as listening.
FirstUnregistered(wq, w, r) ==
  CHOOSE i \in 1..Len(wq) :
    /\ wq[i].w = w /\ wq[i].r = r /\ ~wq[i].reg
    /\ \A j \in 1..(i-1) : ~(wq[j].w = w /\ wq[j].r = r /\ ~wq[j].reg)

Adopt(L, w, r) ==
  IF L.early.w = w /\ L.early.r = r
    THEN [L EXCEPT !.early = NoWaiter,
                   !.microtasks = Append(@, Job("relay", w, r, TRUE))]
    ELSE [L EXCEPT !.waitingQueue[FirstUnregistered(L.waitingQueue, w, r)].reg = TRUE]

\* processRequest is called for each released item in turn; each call runs to
\* its acquire().
RECURSIVE AcquireAll_reversed(_, _)
AcquireAll_reversed(L, items) ==
  IF items = <<>> THEN L
  ELSE Acquire(AcquireAll_reversed(L, Tail(items)), "proc", Head(items))
AcquireAll_firstOnly(L, items) ==
  IF items = <<>> THEN L ELSE Acquire(L, "proc", Head(items))
RECURSIVE AcquireAll(_, _)
AcquireAll(L, items) ==
  IF items = <<>> THEN L
  ELSE AcquireAll(Acquire(L, "proc", Head(items)), Tail(items))

\* ---------------------------------------------------------------------------
\* The limiter's computations

\* addRequest's admission test.
QueueFull_offByOne(q, maxQ) == Len(q) > maxQ
QueueFull(q, maxQ) == Len(q) >= maxQ

\* refillMpmCounter (mpm in 1/Minute tokens, el in units of time).
RefillMpm_uncapped(mpm, el, maxPM) == mpm + el * maxPM
RefillMpm_lateCap(mpm, el, maxPM) == Min(mpm + el * maxPM, (maxPM + 1) * Minute)
RefillMpm(mpm, el, maxPM) == Min(mpm + el * maxPM, maxPM * Minute)

\* processRequest: this.mpsCounter--, this.mpmCounter-- (one token is
\* Minute units of the per-minute budget).
Decrement_none(counter, token) == counter
Decrement(counter, token) == counter - token

\* timerTick: availableTokens.
AvailableTokens(mps, mpm) == Min(mps, FloorMpm(mpm))

\* timerTick: how many items the while loop shifts.
NumReleased_all(q, avail) == Len(q)
NumReleased(q, avail) == IF avail <= 0 THEN 0 ELSE Min(Len(q), avail)

\* timerTick: the queue the while loop leaves.
RestAfter_peek(q, n) == q
RestAfter(q, n) == SubSeq(q, n + 1, Len(q))

\* timerTick: the re-arm decision.
Rearm_never(q) == FALSE
Rearm_always(q) == TRUE
Rearm_ifBacklog(q) == Len(q) > 1
Rearm(q) == Len(q) > 0

SeqToSet(s) == { s[i] : i \in 1..Len(s) }

\* ---------------------------------------------------------------------------
\* processRequest's completion.  Requests are told apart by their ids: the
\* work function of request r fulfils with the value r or fails with the
\* error r, and the QueueItem of r carries the resolve and reject functions
\* of the promise addRequest returned for r.

\* what the error handler throws, when it throws
HandlerError == 0
ResultOf(r) == r
ErrorOf(r) == r

\* a call made by processRequest: the function, the request whose promise
\* it settles (0 for errorHandler and console.error), and the argument
Call(op, of, arg) == [op |-> op, of |-> of, arg |-> arg]

\* the error handler can throw only when it is called
HandlerThrows(ok) == IF ok THEN {FALSE} ELSE BOOLEAN

\* the calls processRequest makes once the work function has settled
Completion_wrapped(r, ok, throws) ==
  IF ok THEN << Call("resolve", r, ResultOf(r)) >>
  ELSE << Call("errorHandler", 0, ErrorOf(r)), Call("reject", r, HandlerError) >>
Completion_unguarded(r, ok, throws) ==
  IF ok THEN << Call("resolve", r, ResultOf(r)) >>
  ELSE IF throws THEN << Call("errorHandler", 0, ErrorOf(r)) >>
  ELSE << Call("errorHandler", 0, ErrorOf(r)), Call("reject", r, ErrorOf(r)) >>
Completion_firstItem(r, ok, throws) ==
  IF ok THEN << Call("resolve", r, ResultOf(r)) >>
  ELSE << Call("errorHandler", 0, ErrorOf(r)), Call("reject", 1, ErrorOf(r)) >>
Completion(r, ok, throws) ==
  IF ok THEN << Call("resolve", r, ResultOf(r)) >>
  ELSE << Call("errorHandler", 0, ErrorOf(r)) >>
       \o (IF throws THEN << Call("console.error", 0, HandlerError) >> ELSE << >>)
       \o << Call("reject", r, ErrorOf(r)) >>

\* how many of the calls settle the promise of request q
SettleCalls(fx, q) ==
  Cardinality({ i \in 1..Len(fx) : fx[i].op \in {"resolve", "reject"} /\ fx[i].of = q })

\* The time after which a refill fills the budget to its cap; elapsed is
\* kept no larger, which leaves every refill's result as it is (the budget
\* is only lowered in the instant of a refill, where elapsed is 0).
ToFull(mpm, maxPM) == 0 - ((mpm - maxPM * Minute) \div maxPM)
Saturate(e, mpm, maxPM) == Min(e, ToFull(mpm, maxPM))

\* ---------------------------------------------------------------------------
\* Initial state: the constructor

\* The options object: each option is given or omitted.
OptionKeys == {"maxPerSecond", "maxPerMinute", "maxQueueSize"}
OptionValues == (0 - 1)..MaxOption
OptionSets == UNION { [K -> OptionValues] : K \in SUBSET OptionKeys }

\* { ...defaults, ...options }
Defaults ==
  [maxPerSecond |-> DEFAULT_MAX_PER_SECOND,
   maxPerMinute |-> DEFAULT_MAX_PER_MINUTE,
   maxQueueSize |-> DEFAULT_MAX_QUEUE_SIZE]
Merged(opts) ==
  [k \in OptionKeys |-> IF k \in DOMAIN opts THEN opts[k] ELSE Defaults[k]]

\* the constructor's validation
Invalid_strict(o) ==
  o.maxPerSecond >= o.maxPerMinute \/ o.maxPerSecond <= 0 \/ o.maxPerMinute <= 0
Invalid(o) ==
  o.maxPerSecond > o.maxPerMinute \/ o.maxPerSecond <= 0 \/ o.maxPerMinute <= 0

\* the fields the class initialisers set (the lock, the queue, the timer)
\* and the bookkeeping of the model
\* private timer: NodeJS.Timeout | null = null
NoTimer_started == TRUE
NoTimer == FALSE

FreshFields ==
  /\ timer = NoTimer
  /\ queue = <<>>
  /\ elapsed = 0
  /\ locked = FALSE
  /\ waitingQueue = <<>>
  /\ early = NoWaiter
  /\ microtasks = <<>>
  /\ batches = {}
  /\ armed = 0
  /\ due = 0
  /\ numSubmitted = 0
  /\ status = [r \in Ids |-> "none"]
  /\ result = [r \in Ids |-> "pending"]
  /\ invoked = [r \in Ids |-> 0]
  /\ settled = [r \in Ids |-> 0]
  /\ age = [r \in Ids |-> -1]
  /\ sync = TRUE
  /\ burst = 0
  /\ timerFired = FALSE
  /\ lastSettle = NoSettle
  /\ numStatus = 0
  /\ lastStatus = NoStatus
  /\ writes = {}
  /\ immediate = {}
  /\ isProcessing = FALSE
  /\ lastSecondRequests = <<>>
  /\ lastMinuteRequests = <<>>
  /\ pass = NoPass
  /\ activeRequests = 0

\* the state after new ApiRateLimiter(c), for the options c of C
InitFor(C) ==
  /\ \E c \in C :
       /\ options = c
       /\ outcome = "instance"
       /\ maxPerSecond = c.maxPerSecond
       /\ maxPerMinute = c.maxPerMinute
       /\ maxQueueSize = c.maxQueueSize
       /\ mpsCounter = c.maxPerSecond
       /\ mpmCounter = c.maxPerMinute * Minute
  /\ FreshFields

Init == InitFor(Configs)

CurLock == LockState(locked, waitingQueue, early, microtasks)
\* the lock and the job queue once the running job was taken off the queue
PopLock == LockState(locked, waitingQueue, early, Tail(microtasks))

SetLock(L) ==
  /\ locked' = L.locked
  /\ waitingQueue' = L.waitingQueue
  /\ early' = L.early
  /\ microtasks' = L.microtasks

\* ---------------------------------------------------------------------------
\* addRequest, up to its first await

\* nothing is queued and both budgets hold a token
TokensAtHand ==
  queue = <<>> /\ Min(mpsCounter, FloorMpm(mpmCounter)) >= 1

AddRequestUpTo(n) ==
  /\ numSubmitted < n
  /\ LET r == numSubmitted + 1 IN
       /\ numSubmitted' = r
       /\ burst' = IF sync THEN burst + 1 ELSE burst
       /\ IF QueueFull(queue, maxQueueSize)
            THEN /\ status' = [status EXCEPT ![r] = "rejected"]
                 /\ result' = [result EXCEPT ![r] = "QueueFull"]
                 /\ UNCHANGED <<lockVars, microtasks, immediate>>
            ELSE /\ status' = [status EXCEPT ![r] = "acquiring"]
                 /\ SetLock(Acquire(CurLock, "add", r))
                 /\ immediate' = IF TokensAtHand THEN immediate \cup {r}
                                                 ELSE immediate
                 /\ UNCHANGED result
  /\ lastStatus' = NoStatus
  /\ writes' = {}
  /\ lastSettle' = NoSettle
  /\ UNCHANGED <<variantVars, cfgVars,
                 coreVars, batches, armed, due, invoked, settled,
                 age, sync, timerFired, numStatus>>

AddRequest == AddRequestUpTo(MaxRequests)

\* addRequest resumed with the lock: the Promise executor pushes the item and
\* starts a tick when this.timer is null; then the lock is released.
AddCont(r) ==
  LET L1 == IF ~timer THEN Acquire(PopLock, "tick", 0) ELSE PopLock
  IN /\ queue' = Append(queue, r)
     /\ status' = [status EXCEPT ![r] = "queued"]
     /\ SetLock(Release(L1))
     /\ UNCHANGED <<timer, mpsCounter, mpmCounter, elapsed, batches, armed,
                    due, result, invoked, settled, age>>

\* timerTick resumed with the lock: refill, release, then (outside the lock)
\* shift up to availableTokens items and call processRequest for each, and
\* await Promise.allSettled of the calls.
TickCont ==
  LET mpm1 == RefillMpm(mpmCounter, elapsed, maxPerMinute)
      avail == AvailableTokens(maxPerSecond, mpm1)
      n == NumReleased(queue, avail)
      items == SubSeq(queue, 1, n)
      L1 == AcquireAll(Release(PopLock), items)
  IN /\ mpsCounter' = maxPerSecond
     /\ mpmCounter' = mpm1
     /\ elapsed' = 0
     /\ queue' = RestAfter(queue, n)
     /\ status' = [r \in Ids |->
                     IF r \in SeqToSet(items) THEN "released" ELSE status[r]]
     /\ IF n = 0
          THEN /\ SetLock([L1 EXCEPT !.microtasks =
                                   Append(@, Job("tickEnd", "tick", 0, TRUE))])
               /\ UNCHANGED batches
          ELSE /\ SetLock(L1)
               /\ batches' = batches \cup {SeqToSet(items)}
     /\ UNCHANGED <<timer, armed, due, result, invoked, settled, age>>

\* processRequest resumed with the lock: take one token of each budget,
\* release, and invoke the work function.  The promise the work function
\* returns is either pending, or settled already, in which case the await
\* queues processRequest's resumption at once.
Outcomes == {"pending", "fulfilled", "failed"}

ProcCont(r) ==
  /\ mpsCounter' = Decrement(mpsCounter, 1)
  /\ mpmCounter' = Decrement(mpmCounter, Minute)
  /\ \E o \in Outcomes :
       LET L1 == Release(PopLock) IN
       IF o = "pending"
         THEN /\ SetLock(L1)
              /\ status' = [status EXCEPT ![r] = "running"]
         ELSE /\ SetLock([L1 EXCEPT !.microtasks =
                           Append(@, Job("workDone", "proc", r, o = "fulfilled"))])
              /\ status' = [status EXCEPT ![r] = "settling"]
  /\ invoked' = [invoked EXCEPT ![r] = @ + 1]
  /\ age' = [age EXCEPT ![r] = 0]
  /\ UNCHANGED <<timer, queue, elapsed, batches, armed, due, result, settled>>

\* processRequest resumed after await request(): resolve, or call the error
\* handler (catching what it throws) and reject; the call's promise then
\* settles.  Every resolve and reject call is applied to the promise it
\* belongs to; a settled promise ignores further calls.
WorkDone(r, ok) ==
  \E throws \in HandlerThrows(ok) :
    LET fx == Completion(r, ok, throws) IN
    /\ result' = [q \in Ids |->
                    IF SettleCalls(fx, q) > 0 THEN "settled" ELSE result[q]]
    /\ settled' = [q \in Ids |-> settled[q] + SettleCalls(fx, q)]
    /\ lastSettle' = [r |-> r, ok |-> ok, throws |-> throws, fx |-> fx]
    /\ status' = [status EXCEPT ![r] = "done"]
    /\ microtasks' = Append(Tail(microtasks), Job("elem", "proc", r, TRUE))
    /\ UNCHANGED <<coreVars, lockVars, batches, armed, due, invoked, age>>

\* Promise.allSettled's reaction to one settled processRequest call; the
\* awaiting tick resumes in a further job once its last call has settled.
Elem(r) ==
  LET b == CHOOSE x \in batches : r \in x IN
  /\ IF b \ {r} = {}
       THEN /\ batches' = batches \ {b}
            /\ microtasks' = Append(Tail(microtasks), Job("tickEnd", "tick", 0, TRUE))
       ELSE /\ batches' = (batches \ {b}) \cup {b \ {r}}
            /\ microtasks' = Tail(microtasks)
  /\ UNCHANGED <<coreVars, lockVars, armed, due, status, result, invoked,
                 settled, age>>

\* timerTick resumed after allSettled: re-arm or go idle.
TickEnd ==
  /\ IF Rearm(queue)
       THEN /\ timer' = TRUE
            /\ armed' = armed + 1
       ELSE /\ timer' = FALSE
            /\ UNCHANGED armed
  /\ microtasks' = Tail(microtasks)
  /\ UNCHANGED <<queue, mpsCounter, mpmCounter, elapsed, lockVars, batches,
                 due, status, result, invoked, settled, age>>

\* getStatus, up to its await: it asks for the lock.
GetStatus ==
  /\ numStatus < MaxStatusCalls
  /\ numStatus' = numStatus + 1
  /\ SetLock(Acquire(CurLock, "status", numStatus + 1))
  /\ lastStatus' = NoStatus
  /\ writes' = {}
  /\ lastSettle' = NoSettle
  /\ UNCHANGED <<variantVars, cfgVars,
                 coreVars, batches, armed, due, numSubmitted, status,
                 result, invoked, settled, age, sync, burst, timerFired, immediate>>

\* calculateAvailableRequests
CalculateAvailableRequests_refilled(mps, mpm) ==
  Min(maxPerSecond, FloorMpm(RefillMpm(mpm, elapsed, maxPerMinute)))
CalculateAvailableRequests(mps, mpm) == Min(mps, FloorMpm(mpm))

\* the status object getStatus builds
Status ==
  [queueSize |-> Len(queue),
   availableRequests |-> CalculateAvailableRequests(mpsCounter, mpmCounter),
   mpsCounter |-> mpsCounter,
   mpmCounter |-> FloorMpm(mpmCounter)]

\* getStatus resumed with the lock: build the status object, release, return.
StatusCont ==
  /\ SetLock(Release(PopLock))
  /\ UNCHANGED <<coreVars, batches, armed, due, status, result, invoked,
                 settled, age>>

\* the two jobs between a waiter's grant and its resumption
AdoptJob(w, r) ==
  /\ SetLock(Adopt(PopLock, w, r))
  /\ UNCHANGED <<coreVars, batches, armed, due, status, result, invoked,
                 settled, age>>

RelayJob(w, r) ==
  /\ microtasks' = Append(Tail(microtasks), Job("cont", w, r, TRUE))
  /\ UNCHANGED <<coreVars, lockVars, batches, armed, due, status, result,
                 invoked, settled, age>>

\* The writes of a job to mpsCounter, mpmCounter and the queue, each with
\* whether the job holds tokenLock when it writes, that is, whether the write
\* comes before the job's call of release(): addRequest pushes and
\* processRequest decrements inside their try blocks, timerTick resets and
\* refills inside its try block and shifts the queue after the finally.
Write(f, h) == [field |-> f, held |-> h]
Writes(j, shifted) ==
  CASE j.k = "cont" /\ j.w = "add" -> {Write("queue", TRUE)}
    [] j.k = "cont" /\ j.w = "proc" ->
         {Write("mpsCounter", TRUE), Write("mpmCounter", TRUE)}
    [] j.k = "cont" /\ j.w = "tick" ->
         {Write("mpsCounter", TRUE), Write("mpmCounter", TRUE)}
           \cup (IF shifted THEN {Write("queue", FALSE)} ELSE {})
    [] OTHER -> {}

\* One job of the microtask queue.
RunMicrotask ==
  /\ Len(microtasks) > 0
  /\ LET j == Head(microtasks) IN
       CASE j.k = "cont" /\ j.w = "add" -> AddCont(j.r)
         [] j.k = "cont" /\ j.w = "tick" -> TickCont
         [] j.k = "cont" /\ j.w = "proc" -> ProcCont(j.r)
         [] j.k = "cont" /\ j.w = "status" -> StatusCont
         [] j.k = "thenable" -> AdoptJob(j.w, j.r)
         [] j.k = "relay" -> RelayJob(j.w, j.r)
         [] j.k = "workDone" -> WorkDone(j.r, j.ok)
         [] j.k = "elem" -> Elem(j.r)
         [] j.k = "tickEnd" -> TickEnd
  /\ lastStatus' = IF Head(microtasks).k = "cont" /\ Head(microtasks).w = "status"
                     THEN Status
                     ELSE NoStatus
  /\ immediate' = IF Head(microtasks).k = "cont" /\ Head(microtasks).w = "proc"
                    THEN immediate \ {Head(microtasks).r}
                    ELSE immediate
  /\ IF Head(microtasks).k = "workDone" THEN TRUE ELSE lastSettle' = NoSettle
  /\ writes' = Writes(Head(microtasks), queue' # queue)
  /\ sync' = FALSE
  /\ UNCHANGED <<variantVars, cfgVars,
                 numSubmitted, burst, timerFired, numStatus>>

\* The pending promise returned by a work function settles, in a job of
\* its own (the completion of the I/O the work function waits for).
Settle ==
  \E r \in Ids, ok \in BOOLEAN :
    /\ microtasks = <<>>
    /\ status[r] = "running"
    /\ status' = [status EXCEPT ![r] = "settling"]
    /\ microtasks' = Append(microtasks, Job("workDone", "proc", r, ok))
    /\ lastStatus' = NoStatus
    /\ writes' = {}
    /\ lastSettle' = NoSettle
    /\ UNCHANGED <<variantVars, cfgVars,
                   coreVars, lockVars, batches, armed, due,
                   numSubmitted, result, invoked, settled, age, sync, burst,
                   timerFired, numStatus, immediate>>

\* A timeout callback: () => this.timerTick()
TimerFire ==
  /\ microtasks = <<>>
  /\ due > 0
  /\ due' = due - 1
  /\ timerFired' = TRUE
  /\ sync' = FALSE
  /\ SetLock(Acquire(CurLock, "tick", 0))
  /\ lastStatus' = NoStatus
  /\ writes' = {}
  /\ lastSettle' = NoSettle
  /\ UNCHANGED <<variantVars, cfgVars,
                 coreVars, batches, armed, numSubmitted, status,
                 result, invoked, settled, age, burst, numStatus, immediate>>

\* Time passes, once every job that is ready has run: up to the next
\* timeout when one is scheduled, by half a minute or a minute otherwise.
Steps == IF armed > 0 THEN {TickDelay} ELSE {Minute \div 2, Minute}

Advance ==
  /\ microtasks = <<>>
  /\ due = 0
  /\ \E d \in Steps :
       /\ elapsed' = Saturate(elapsed + d, mpmCounter, maxPerMinute)
       /\ age' = [r \in Ids |-> IF age[r] < 0 THEN age[r] ELSE Min(age[r] + d, Minute)]
  /\ due' = armed
  /\ armed' = 0
  /\ sync' = FALSE
  /\ lastStatus' = NoStatus
  /\ writes' = {}
  /\ lastSettle' = NoSettle
  /\ UNCHANGED <<variantVars, cfgVars,
                 timer, queue, mpsCounter, mpmCounter, lockVars,
                 microtasks, batches, numSubmitted, status, result, invoked,
                 settled, burst, timerFired, numStatus, immediate>>

\* ---------------------------------------------------------------------------
\* The constructor on its own: it is called with any options object, and
\* either throws or sets the fields (which read 0 before it has run).

CtorInit ==
  /\ options \in OptionSets
  /\ outcome = "none"
  /\ maxPerSecond = 0 /\ maxPerMinute = 0 /\ maxQueueSize = 0
  /\ mpsCounter = 0 /\ mpmCounter = 0
  /\ FreshFields

Construct ==
  /\ outcome = "none"
  /\ LET o == Merged(options) IN
       IF Invalid(o)
         THEN /\ outcome' = "InvalidOptionsError"
              /\ UNCHANGED <<maxPerSecond, maxPerMinute, maxQueueSize,
                             mpsCounter, mpmCounter>>
         ELSE /\ outcome' = "instance"
              /\ maxPerSecond' = o.maxPerSecond
              /\ maxPerMinute' = o.maxPerMinute
              /\ maxQueueSize' = o.maxQueueSize
              /\ mpsCounter' = o.maxPerSecond
              /\ mpmCounter' = o.maxPerMinute * Minute
  /\ UNCHANGED <<options, timer, queue, elapsed, lockVars, loopVars, histVars,
                 variantVars>>

CtorNext == Construct

CtorSpec == CtorInit /\ [][CtorNext]_vars

\* ---------------------------------------------------------------------------
\* The limiter in use

Next == AddRequest \/ RunMicrotask \/ Settle \/ TimerFire \/ Advance

Spec == Init /\ [][Next]_vars

TypeOK ==
  /\ timer \in BOOLEAN /\ locked \in BOOLEAN
  /\ mpsCounter \in Int /\ mpmCounter \in Int
  /\ elapsed \in Nat
  /\ armed \in Nat /\ due \in Nat
  /\ numSubmitted \in 0..Cardinality(Ids)

\* ---------------------------------------------------------------------------
\* The fair specification: every ready job runs, timeouts fire, time passes
\* and every invoked work function settles.

AddRequestLive ==
  /\ numSubmitted < MaxLiveRequests
  /\ AddRequest

NextLive == AddRequestLive \/ RunMicrotask \/ Settle \/ TimerFire \/ Advance

LiveInit == InitFor(LiveConfigs)

LiveSpec ==
  /\ LiveInit
  /\ [][NextLive]_vars
  /\ WF_vars(RunMicrotask)
  /\ WF_vars(Settle)
  /\ WF_vars(TimerFire)
  /\ WF_vars(Advance)

\* ---------------------------------------------------------------------------
\* The limiter in use by a caller that also asks for its status.

AddRequestStatus ==
  /\ numSubmitted < MaxStatusRequests
  /\ AddRequest

StatusNext ==
  AddRequestStatus \/ GetStatus \/ RunMicrotask \/ Settle \/ TimerFire \/ Advance

StatusSpec == Init /\ [][StatusNext]_vars

\* The limiter when every ready job runs, while work functions may stay
\* pending for ever and time may stand still.
JobsRunSpec == LiveInit /\ [][NextLive]_vars /\ WF_vars(RunMicrotask)

\* The limiter with addRequest and getStatus calls contending for the lock.
AddRequestLock == AddRequestUpTo(MaxLockRequests)

GetStatusLock ==
  /\ numStatus < MaxLockCalls
  /\ GetStatus

LockNext ==
  AddRequestLock \/ GetStatusLock \/ RunMicrotask \/ Settle \/ TimerFire \/ Advance

LockSpec == LiveInit /\ [][LockNext]_vars /\ WF_vars(RunMicrotask)

\* The limiter under one more addRequest call than Spec makes.
AddRequestBlock == AddRequestUpTo(MaxBlockRequests)

BlockNext ==
  AddRequestBlock \/ RunMicrotask \/ Settle \/ TimerFire \/ Advance

BlockSpec == Init /\ [][BlockNext]_vars

\* ---------------------------------------------------------------------------
\* The per-minute budget on its own: the refill of a tick that finds the
\* queue empty, the decrement of an executed request and getStatus, each
\* taken as one step on a free lock, with any time passing in between.

RefillConfigs ==
  { [maxPerSecond |-> 1, maxPerMinute |-> m, maxQueueSize |-> 1] :
      m \in 1..MaxRefillPerMinute }

\* Date.now() moves on
RefillPass ==
  /\ elapsed < MaxRefillElapsed
  /\ elapsed' = elapsed + 1
  /\ lastStatus' = NoStatus
  /\ writes' = {}
  /\ UNCHANGED <<variantVars, cfgVars,
                 timer, queue, mpsCounter, mpmCounter, lockVars,
                 loopVars, numSubmitted, status, result, invoked, settled,
                 age, sync, burst, timerFired, lastSettle, numStatus,
                 immediate>>

\* timerTick's locked section: reset, refillMpmCounter
RefillTick ==
  /\ mpsCounter' = maxPerSecond
  /\ mpmCounter' = RefillMpm(mpmCounter, elapsed, maxPerMinute)
  /\ elapsed' = 0
  /\ lastStatus' = NoStatus
  /\ writes' = {Write("mpsCounter", TRUE), Write("mpmCounter", TRUE)}
  /\ UNCHANGED <<variantVars, cfgVars,
                 timer, queue, lockVars, loopVars, numSubmitted,
                 status, result, invoked, settled, age, sync, burst,
                 timerFired, lastSettle, numStatus, immediate>>

\* processRequest's locked section, for a request released by a tick that
\* found a token in both budgets
RefillConsume ==
  /\ AvailableTokens(mpsCounter, mpmCounter) >= 1
  /\ mpsCounter' = mpsCounter - 1
  /\ mpmCounter' = mpmCounter - Minute
  /\ lastStatus' = NoStatus
  /\ writes' = {Write("mpsCounter", TRUE), Write("mpmCounter", TRUE)}
  /\ UNCHANGED <<variantVars, cfgVars,
                 timer, queue, elapsed, lockVars, loopVars,
                 numSubmitted, status, result, invoked, settled, age, sync,
                 burst, timerFired, lastSettle, numStatus, immediate>>

\* getStatus's locked section
RefillStatus ==
  /\ lastStatus' = Status
  /\ writes' = {}
  /\ UNCHANGED <<variantVars, cfgVars,
                 coreVars, lockVars, loopVars, numSubmitted, status,
                 result, invoked, settled, age, sync, burst, timerFired,
                 lastSettle, numStatus, immediate>>

RefillNext == RefillPass \/ RefillTick \/ RefillConsume \/ RefillStatus

RefillSpec == InitFor(RefillConfigs) /\ [][RefillNext]_vars

\* ---------------------------------------------------------------------------
\* The sliding-window limiter (src/unnamed/part_002).  It has no lock: a
\* pass (processQueue) runs for as long as isProcessing is set, started by
\* addRequest when no interval timer is set, or by the timer's callback.
\* The fields timer, queue and the three limits are the class's own; armed
\* and due are the interval timer (set, and with a callback due now).
\* Each deque entry is kept as the time since the recorded Date.now().

\* removeExpiredRequests: shift from the front while the front has expired
RECURSIVE RemoveExpiredRequests(_, _)
RemoveExpiredRequests(dq, timeWindow) ==
  IF dq # <<>> /\ Head(dq) >= timeWindow
    THEN RemoveExpiredRequests(Tail(dq), timeWindow)
    ELSE dq

\* calculateAvailableRequests of the sliding-window limiter
SwAvailableRequests(ls, lm) ==
  Min(maxPerSecond - Len(ls), maxPerMinute - Len(lm))

\* addRequest's admission test
SwQueueFull_offByOne(q) == Len(q) > maxQueueSize
SwQueueFull(q) == Len(q) >= maxQueueSize

\* processQueueHelper's for loop, from its test to the next await: the next
\* item is shifted and processRequest called, which records the pass's now
\* in both deques and invokes the work function; or the loop ends and the
\* helper returns, which resumes processQueue in a job of its own.
\* q, ls, lm, p, mt and st are the queue, the deques, the pass, the job queue
\* and the requests' states as the caller's job has left them.
HelperLoop(q, ls, lm, p, mt, st) ==
  IF p.i < p.avail /\ q # <<>>
    THEN LET r == Head(q) IN
         /\ queue' = Tail(q)
         /\ lastSecondRequests' = Append(ls, Min(p.age, Second))
         /\ lastMinuteRequests' = Append(lm, p.age)
         /\ pass' = p
         /\ invoked' = [invoked EXCEPT ![r] = @ + 1]
         /\ age' = [age EXCEPT ![r] = 0]
         /\ \E o \in Outcomes :
              IF o = "pending"
                THEN /\ status' = [st EXCEPT ![r] = "running"]
                     /\ microtasks' = mt
                ELSE /\ status' = [st EXCEPT ![r] = "settling"]
                     /\ microtasks' =
                          Append(mt, Job("workDone", "proc", r, o = "fulfilled"))
    ELSE /\ queue' = q
         /\ lastSecondRequests' = ls
         /\ lastMinuteRequests' = lm
         /\ pass' = p
         /\ status' = st
         /\ microtasks' = Append(mt, Job("finish", "pass", 0, TRUE))
         /\ UNCHANGED <<invoked, age>>

\* processQueue, up to its first await: nothing when a pass is running;
\* otherwise a pass starts: the expired entries leave the deques, the
\* available requests are counted, once, and the loop begins.
ProcessQueue_reentrant(q, mt, st) ==
  LET ls == RemoveExpiredRequests(lastSecondRequests, Second)
      lm == RemoveExpiredRequests(lastMinuteRequests, Minute)
      p == [avail |-> SwAvailableRequests(ls, lm), i |-> 0, age |-> 0]
  IN /\ isProcessing' = TRUE
     /\ HelperLoop(q, ls, lm, p, mt, st)
ProcessQueue(q, mt, st) ==
  IF isProcessing
    THEN /\ queue' = q
         /\ microtasks' = mt
         /\ status' = st
         /\ UNCHANGED <<swVars, invoked, age>>
    ELSE LET ls == RemoveExpiredRequests(lastSecondRequests, Second)
             lm == RemoveExpiredRequests(lastMinuteRequests, Minute)
             p == [avail |-> SwAvailableRequests(ls, lm), i |-> 0, age |-> 0]
         IN /\ isProcessing' = TRUE
            /\ HelperLoop(q, ls, lm, p, mt, st)

\* addRequest: a full queue rejects; otherwise the item is pushed and, when
\* no timer is set, the interval timer is set and a pass started.
SwAddRequestUpTo(n) ==
  /\ numSubmitted < n
  /\ LET r == numSubmitted + 1 IN
       /\ numSubmitted' = r
       /\ IF SwQueueFull(queue)
            THEN /\ status' = [status EXCEPT ![r] = "rejected"]
                 /\ result' = [result EXCEPT ![r] = "QueueFull"]
                 /\ UNCHANGED <<timer, queue, microtasks, armed, swVars,
                                invoked, age>>
            ELSE /\ UNCHANGED result
                 /\ IF ~timer
                      THEN /\ timer' = TRUE
                           /\ armed' = 1
                           /\ ProcessQueue(Append(queue, r), microtasks,
                                           [status EXCEPT ![r] = "queued"])
                      ELSE /\ queue' = Append(queue, r)
                           /\ status' = [status EXCEPT ![r] = "queued"]
                           /\ UNCHANGED <<timer, microtasks, armed, swVars,
                                          invoked, age>>
  /\ UNCHANGED <<trVars, cfgVars, mpsCounter, mpmCounter, elapsed, lockVars,
                 batches, due, settled, sync, burst, timerFired, lastSettle,
                 numStatus, lastStatus, writes, immediate>>

SwAddRequest == SwAddRequestUpTo(MaxSwRequests)

\* processRequest resumed after await request(): resolve, or call the error
\* handler and reject; when the handler throws, reject is not reached and
\* the call's promise rejects.  The helper, awaiting the call, resumes next.
SwWorkDone(r, ok) ==
  \E throws \in HandlerThrows(ok) :
    /\ status' = [status EXCEPT ![r] = "done"]
    /\ result' = [result EXCEPT ![r] = IF throws THEN @ ELSE "settled"]
    /\ settled' = [settled EXCEPT ![r] = IF throws THEN @ ELSE @ + 1]
    /\ microtasks' = Append(Tail(microtasks), Job("helper", "pass", r, ~throws))
    /\ UNCHANGED <<timer, queue, armed, due, swVars, invoked, age>>

\* processQueueHelper resumed after await processRequest(): the next round
\* of the loop; or, the call having rejected, the helper rejects too.
SwHelper(ok) ==
  /\ IF ok
       THEN HelperLoop(queue, lastSecondRequests, lastMinuteRequests,
                       [pass EXCEPT !.i = @ + 1], Tail(microtasks), status)
       ELSE /\ microtasks' =
                 Append(Tail(microtasks), Job("finish", "pass", 0, FALSE))
            /\ UNCHANGED <<queue, lastSecondRequests, lastMinuteRequests, pass,
                           status, invoked, age>>
  /\ UNCHANGED <<timer, armed, due, isProcessing, result, settled>>

\* stopTimer
StopTimer_queueOnly ==
  IF timer /\ queue = <<>>
    THEN timer' = FALSE /\ armed' = 0 /\ due' = 0
    ELSE UNCHANGED <<timer, armed, due>>
StopTimer ==
  IF timer /\ queue = <<>> /\ lastSecondRequests = <<>>
           /\ lastMinuteRequests = <<>>
    THEN timer' = FALSE /\ armed' = 0 /\ due' = 0
    ELSE UNCHANGED <<timer, armed, due>>

\* processQueue's finally block
SwFinish ==
  /\ isProcessing' = FALSE
  /\ pass' = NoPass
  /\ IF queue = <<>> THEN StopTimer ELSE UNCHANGED <<timer, armed, due>>
  /\ microtasks' = Tail(microtasks)
  /\ UNCHANGED <<queue, lastSecondRequests, lastMinuteRequests, status, result,
                 settled, invoked, age>>

\* One job of the microtask queue.
SwRunMicrotask ==
  /\ Len(microtasks) > 0
  /\ LET j == Head(microtasks) IN
       CASE j.k = "workDone" -> SwWorkDone(j.r, j.ok)
         [] j.k = "helper" -> SwHelper(j.ok)
         [] j.k = "finish" -> SwFinish
  /\ sync' = FALSE
  /\ UNCHANGED <<trVars, cfgVars, mpsCounter, mpmCounter, elapsed, lockVars,
                 batches, numSubmitted, burst, timerFired, lastSettle,
                 numStatus, lastStatus, writes, immediate>>

\* The pending promise returned by a work function settles.
SwSettle ==
  \E r \in Ids, ok \in BOOLEAN :
    /\ microtasks = <<>>
    /\ status[r] = "running"
    /\ status' = [status EXCEPT ![r] = "settling"]
    /\ microtasks' = Append(microtasks, Job("workDone", "proc", r, ok))
    /\ sync' = FALSE
    /\ UNCHANGED <<variantVars, cfgVars, coreVars, lockVars, batches, armed,
                   due, numSubmitted, result, invoked, settled, age, burst,
                   timerFired, lastSettle, numStatus, lastStatus, writes,
                   immediate>>

\* The interval timer's callback: processQueue
SwTimerFire ==
  /\ microtasks = <<>>
  /\ due > 0
  /\ due' = 0
  /\ timerFired' = TRUE
  /\ sync' = FALSE
  /\ ProcessQueue(queue, microtasks, status)
  /\ UNCHANGED <<trVars, cfgVars, timer, mpsCounter, mpmCounter, elapsed,
                 lockVars, batches, armed, numSubmitted, result, settled,
                 burst, lastSettle, numStatus, lastStatus, writes, immediate>>

\* Time passes, once every job that is ready has run: by one interval, or,
\* when no pass is running and the callbacks to come find nothing to do
\* until the oldest entry of the per-minute deque expires (nothing is
\* queued, or the per-minute deque is full, and the per-second deque is
\* empty), up to the moment that entry expires.
SwSteps ==
  IF /\ timer /\ ~isProcessing
     /\ lastSecondRequests = <<>> /\ lastMinuteRequests # <<>>
     /\ queue = <<>> \/ maxPerMinute - Len(lastMinuteRequests) <= 0
     /\ Head(lastMinuteRequests) < Minute - ProcessInterval
    THEN {Minute - Head(lastMinuteRequests)}
    ELSE {ProcessInterval}

SwAdvance ==
  /\ microtasks = <<>>
  /\ due = 0
  /\ isProcessing => pass.age < MaxPassTime
  /\ \E d \in SwSteps :
       /\ lastSecondRequests' =
            [i \in 1..Len(lastSecondRequests) |->
               Min(lastSecondRequests[i] + d, Second)]
       /\ lastMinuteRequests' =
            [i \in 1..Len(lastMinuteRequests) |->
               Min(lastMinuteRequests[i] + d, Minute)]
       /\ pass' = IF isProcessing
                    THEN [pass EXCEPT !.age = Min(@ + d, Minute)]
                    ELSE pass
       /\ age' = [r \in Ids |->
                    IF age[r] < 0 THEN age[r] ELSE Min(age[r] + d, Second)]
  /\ due' = IF timer THEN 1 ELSE 0
  /\ sync' = FALSE
  /\ UNCHANGED <<trVars, cfgVars, timer, queue, mpsCounter, mpmCounter,
                 elapsed, lockVars, microtasks, batches, armed, isProcessing,
                 numSubmitted, status, result, invoked, settled, burst,
                 timerFired, lastSettle, numStatus, lastStatus, writes,
                 immediate>>

SwNext ==
  SwAddRequest \/ SwRunMicrotask \/ SwSettle \/ SwTimerFire \/ SwAdvance

SwSpec == InitFor(SwConfigs) /\ [][SwNext]_vars

\* The sliding-window limiter when every job that is ready runs, every work
\* function settles, time passes and the interval timer's callbacks run.
SwAddRequestLive == SwAddRequestUpTo(MaxSwLiveRequests)

SwNextLive ==
  SwAddRequestLive \/ SwRunMicrotask \/ SwSettle \/ SwTimerFire \/ SwAdvance

SwLiveSpec ==
  /\ InitFor(SwConfigs)
  /\ [][SwNextLive]_vars
  /\ WF_vars(SwRunMicrotask)
  /\ WF_vars(SwSettle)
  /\ WF_vars(SwTimerFire)
  /\ WF_vars(SwAdvance)

\* ---------------------------------------------------------------------------
\* The trickle-recovery limiter (src/src/ApiRateLimiter.ts).  It has no
\* lock either: addRequest executes the request at once when both counters
\* are positive and queues it otherwise, and the interval timer's callback
\* releases queued items and gives one per-second token and a sixtieth of
\* the per-minute budget back.  mpmCounter is in 1/Minute tokens here too.

\* calculateAvailableRequests, in 1/Minute tokens
TrAvailableRequests(mps, mpm) == Min(mps * Minute, mpm)

\* the jobs queued by the work functions of items that settle at once
RECURSIVE TrJobs(_, _)
TrJobs(items, outs) ==
  IF items = <<>> THEN <<>>
  ELSE (IF Head(outs) = "pending" THEN <<>>
        ELSE << Job("workDone", "proc", Head(items), Head(outs) = "fulfilled") >>)
       \o TrJobs(Tail(items), Tail(outs))

\* processRequest called for each of items in turn, up to its await: the
\* request is counted as active and its work function invoked, and neither
\* counter is written.  q, mps, mpm and st are the queue, the counters and
\* the requests' states as the caller has left them.
TrProcessAll(items, q, mps, mpm, st) ==
  \E outs \in [1..Len(items) -> Outcomes] :
    /\ queue' = q
    /\ activeRequests' = activeRequests + Len(items)
    /\ mpsCounter' = mps
    /\ mpmCounter' = mpm
    /\ invoked' = [r \in Ids |->
                     IF r \in SeqToSet(items) THEN invoked[r] + 1 ELSE invoked[r]]
    /\ age' = [r \in Ids |-> IF r \in SeqToSet(items) THEN 0 ELSE age[r]]
    /\ status' = [r \in Ids |->
                    IF \E i \in 1..Len(items) : items[i] = r /\ outs[i] = "pending"
                      THEN "running"
                    ELSE IF r \in SeqToSet(items) THEN "settling"
                    ELSE st[r]]
    /\ microtasks' = microtasks \o TrJobs(items, outs)

\* addRequest and manageRequest
TrAddRequest ==
  /\ numSubmitted < MaxTrRequests
  /\ LET r == numSubmitted + 1 IN
       /\ numSubmitted' = r
       /\ IF Len(queue) >= maxQueueSize
            THEN /\ status' = [status EXCEPT ![r] = "rejected"]
                 /\ result' = [result EXCEPT ![r] = "QueueFull"]
                 /\ UNCHANGED <<timer, queue, mpsCounter, mpmCounter,
                                microtasks, armed, activeRequests, invoked, age>>
            ELSE /\ UNCHANGED result
                 /\ IF ~timer THEN timer' = TRUE /\ armed' = 1
                              ELSE UNCHANGED <<timer, armed>>
                 /\ IF TrAvailableRequests(mpsCounter, mpmCounter) > 0
                      THEN TrProcessAll(<<r>>, queue, mpsCounter, mpmCounter,
                                        status)
                      ELSE /\ queue' = Append(queue, r)
                           /\ status' = [status EXCEPT ![r] = "queued"]
                           /\ UNCHANGED <<mpsCounter, mpmCounter, microtasks,
                                          activeRequests, invoked, age>>
  /\ UNCHANGED <<swVars, cfgVars, elapsed, lockVars, batches, due, settled,
                 sync, burst, timerFired, lastSettle, numStatus, lastStatus,
                 writes, immediate>>

\* The interval timer's callback, processQueue: up to maxPerSecond items are
\* shifted and executed, the counters recover, and the timer is stopped
\* when nothing is queued or active.
TrProcessQueue ==
  /\ microtasks = <<>>
  /\ due > 0
  /\ LET n == Min(maxPerSecond, Len(queue))
         items == SubSeq(queue, 1, n)
         rest == SubSeq(queue, n + 1, Len(queue))
     IN /\ TrProcessAll(items, rest,
                        Min(mpsCounter + 1, maxPerSecond),
                        Min(mpmCounter + maxPerMinute, maxPerMinute * Minute),
                        status)
        /\ IF rest = <<>> /\ activeRequests + n = 0
             THEN timer' = FALSE /\ armed' = 0
             ELSE UNCHANGED <<timer, armed>>
  /\ due' = 0
  /\ timerFired' = TRUE
  /\ sync' = FALSE
  /\ UNCHANGED <<swVars, cfgVars, elapsed, lockVars, batches, numSubmitted,
                 result, settled, burst, lastSettle, numStatus, lastStatus,
                 writes, immediate>>

\* processRequest resumed after await request(): resolve, or call the error
\* handler and reject (not reached when the handler throws); the finally
\* block counts the request as no longer active.
TrWorkDone ==
  /\ Len(microtasks) > 0
  /\ LET r == Head(microtasks).r
         ok == Head(microtasks).ok
     IN \E throws \in HandlerThrows(ok) :
          /\ status' = [status EXCEPT ![r] = "done"]
          /\ result' = [result EXCEPT ![r] = IF throws THEN @ ELSE "settled"]
          /\ settled' = [settled EXCEPT ![r] = IF throws THEN @ ELSE @ + 1]
  /\ activeRequests' = activeRequests - 1
  /\ microtasks' = Tail(microtasks)
  /\ sync' = FALSE
  /\ UNCHANGED <<swVars, cfgVars, timer, queue, mpsCounter, mpmCounter,
                 elapsed, lockVars, batches, armed, due, numSubmitted, invoked,
                 age, burst, timerFired, lastSettle, numStatus, lastStatus,
                 writes, immediate>>

\* The pending promise returned by a work function settles.
TrSettle ==
  \E r \in Ids, ok \in BOOLEAN :
    /\ microtasks = <<>>
    /\ status[r] = "running"
    /\ status' = [status EXCEPT ![r] = "settling"]
    /\ microtasks' = Append(microtasks, Job("workDone", "proc", r, ok))
    /\ sync' = FALSE
    /\ UNCHANGED <<variantVars, cfgVars, coreVars, lockVars, batches, armed,
                   due, numSubmitted, result, invoked, settled, age, burst,
                   timerFired, lastSettle, numStatus, lastStatus, writes,
                   immediate>>

\* Time passes by one interval, once every job that is ready has run.
TrAdvance ==
  /\ microtasks = <<>>
  /\ due = 0
  /\ age' = [r \in Ids |->
               IF age[r] < 0 THEN age[r] ELSE Min(age[r] + Second, Second)]
  /\ due' = IF timer THEN 1 ELSE 0
  /\ sync' = FALSE
  /\ UNCHANGED <<variantVars, cfgVars, timer, queue, mpsCounter, mpmCounter,
                 elapsed, lockVars, microtasks, batches, armed, numSubmitted,
                 status, result, invoked, settled, burst, timerFired,
                 lastSettle, numStatus, lastStatus, writes, immediate>>

TrNext == TrAddRequest \/ TrProcessQueue \/ TrWorkDone \/ TrSettle \/ TrAdvance

TrSpec == InitFor(TrConfigs) /\ [][TrNext]_vars

\* ---------------------------------------------------------------------------
\* Properties

Started(r) == age[r] >= 0
StartedNow == { r \in Ids : age[r] = 0 }
StartedThisMinute == { r \in Ids : age[r] >= 0 /\ age[r] < Minute }

\* C1: within any interval of 1000 ms no more than maxPerSecond work
\* functions begin executing (the interval that ends now, in every state).
C1_PerSecondCeiling == Cardinality(StartedNow) <= maxPerSecond

\* C2: within any interval of 60000 ms no more than maxPerMinute work
\* functions begin executing (the interval that ends now, in every state).
C2_PerMinuteCeiling == Cardinality(StartedThisMinute) <= maxPerMinute

\* C3: of maxPerSecond + 1 requests submitted back-to-back to a fresh limiter
\* with maxPerMinute > maxPerSecond, the last one does not begin executing
\* before a timeout has fired, and the others have begun by then.
C3_OverflowWaitsForTick ==
  (/\ maxPerMinute > maxPerSecond
   /\ burst = maxPerSecond + 1
   /\ numSubmitted = burst)
  => /\ ~timerFired => invoked[maxPerSecond + 1] = 0
     /\ timerFired => \A r \in 1..maxPerSecond : invoked[r] >= 1

\* C4: the queue never holds more than maxQueueSize items.
C4_QueueBounded == Len(queue) <= maxQueueSize

\* C5: an addRequest call made while the queue holds maxQueueSize or more
\* items is rejected with QueueFullError and changes neither the queue, the
\* counters, the lock nor the timer; a rejected request is never enqueued
\* and its work function is never invoked.
C5_Step ==
  /\ (numSubmitted' = numSubmitted + 1 /\ Len(queue) >= maxQueueSize)
       => /\ result'[numSubmitted'] = "QueueFull"
          /\ status'[numSubmitted'] = "rejected"
          /\ UNCHANGED <<coreVars, lockVars, loopVars>>
  /\ \A r \in Ids :
       result[r] = "QueueFull"
         => /\ result'[r] = "QueueFull"
            /\ invoked'[r] = 0
            /\ settled'[r] = 0
            /\ r \notin SeqToSet(queue')
C5_FullQueueRejects == [][C5_Step]_vars
C5_Witness == \E r \in Ids : result[r] = "QueueFull"

\* C6: with maxQueueSize = 1, the third of three requests submitted
\* back-to-back to a fresh limiter is rejected with QueueFullError at once
\* and its work function is never invoked.
C6_ThirdOfBurstRejected ==
  (maxQueueSize = 1 /\ burst >= 3)
    => (result[3] = "QueueFull" /\ invoked[3] = 0)

\* C7: 0 <= mpsCounter <= maxPerSecond in every reachable state.
C7_MpsInRange == 0 <= mpsCounter /\ mpsCounter <= maxPerSecond

\* C8: 0 <= mpmCounter <= maxPerMinute in every reachable state.
C8_MpmInRange == 0 <= mpmCounter /\ mpmCounter <= maxPerMinute * Minute

\* C9: every accepted request is consumed at most once: its work function is
\* invoked at most once, its promise is settled at most once, and it is
\* never held twice by the queue or by the ticks in flight.
Occurrences(q, r) == Cardinality({ i \in 1..Len(q) : q[i] = r })
ReleasedEntries(r) ==
  Cardinality({ i \in 1..Len(waitingQueue) :
                  waitingQueue[i].w = "proc" /\ waitingQueue[i].r = r })
  + Cardinality({ i \in 1..Len(microtasks) :
                  /\ microtasks[i].k \in {"cont", "relay"}
                  /\ microtasks[i].w = "proc" /\ microtasks[i].r = r })
  + (IF early.w = "proc" /\ early.r = r THEN 1 ELSE 0)
C9_ConsumedAtMostOnce ==
  \A r \in Ids :
    /\ invoked[r] <= 1
    /\ settled[r] <= 1
    /\ Occurrences(queue, r) + ReleasedEntries(r) + invoked[r] <= 1
    /\ Cardinality({ b \in batches : r \in b }) <= 1
C9_Witness ==
  /\ Cardinality(batches) >= 2
  /\ \E r \in Ids : invoked[r] = 1 /\ settled[r] = 1

\* C10: every accepted request eventually has its work function invoked and
\* its promise settled.
C10_AcceptedEventuallySettled ==
  \A r \in 1..MaxLiveRequests :
    (status[r] = "acquiring") ~> (invoked[r] >= 1 /\ result[r] = "settled")
C10_Witness ==
  /\ timerFired
  /\ numSubmitted = MaxLiveRequests
  /\ \A r \in 1..MaxLiveRequests : result[r] = "settled"

\* ---------------------------------------------------------------------------
\* Failures of work functions and of the error handler

\* the positions of the calls of function op in the calls fx
CallsOf(fx, op) == { i \in 1..Len(fx) : fx[i].op = op }
\* a step in which processRequest completes request r
Completes(r) == lastSettle' # lastSettle /\ lastSettle'.r = r
\* what that step leaves of the rest of the limiter when the work function
\* succeeded: only r's own promise and r's processRequest call have settled
AsIfSucceeded(r) ==
  /\ result' = [result EXCEPT ![r] = "settled"]
  /\ settled' = [settled EXCEPT ![r] = @ + 1]
  /\ status' = [status EXCEPT ![r] = "done"]
  /\ microtasks' = Append(Tail(microtasks), Job("elem", "proc", r, TRUE))
  /\ UNCHANGED <<cfgVars, coreVars, lockVars, batches, armed, due,
                 numSubmitted, invoked, age>>

\* C11: when a released request's work function fails, the error handler is
\* called exactly once, with the work function's error, and after that call
\* the request's promise is rejected, once, with that same error.
C11_HandlerThenReject ==
  (lastSettle.r # 0 /\ ~lastSettle.ok)
    => LET fx == lastSettle.fx
           r == lastSettle.r
       IN /\ Cardinality(CallsOf(fx, "errorHandler")) = 1
          /\ Cardinality(CallsOf(fx, "reject")) = 1
          /\ CallsOf(fx, "resolve") = {}
          /\ \A i \in CallsOf(fx, "errorHandler") : fx[i].arg = ErrorOf(r)
          /\ \A j \in CallsOf(fx, "reject") :
               /\ fx[j].of = r
               /\ fx[j].arg = ErrorOf(r)
               /\ \A i \in CallsOf(fx, "errorHandler") : i < j
          /\ result[r] = "settled"
          /\ settled[r] = 1
C11_Witness ==
  /\ lastSettle.r # 0
  /\ ~lastSettle.ok
  /\ ~lastSettle.throws
  /\ invoked[lastSettle.r] = 1

\* C12: when the error handler throws, the request's promise is still
\* rejected with the work function's error, the tick that released the
\* request is still notified of the call's completion (and so goes on to its
\* re-arm decision), and counters, queue, lock and timer are left as a
\* handler that returns leaves them.
C12_Step ==
  \A r \in Ids :
    (Completes(r) /\ lastSettle'.throws)
      => /\ \E j \in CallsOf(lastSettle'.fx, "reject") :
              /\ lastSettle'.fx[j].of = r
              /\ lastSettle'.fx[j].arg = ErrorOf(r)
         /\ \A j \in CallsOf(lastSettle'.fx, "reject") :
              lastSettle'.fx[j].arg # HandlerError
         /\ \E b \in batches' : r \in b
         /\ AsIfSucceeded(r)
C12_ThrowingHandlerContained == [][C12_Step]_vars
C12_Witness ==
  /\ lastSettle.r # 0
  /\ lastSettle.throws
  /\ result[lastSettle.r] = "settled"
  /\ Len(queue) > 0

\* C13: a request whose work function fails settles only its own promise,
\* and leaves every other request, the queue, the counters, the lock, the
\* ticks in flight and the timeouts as a request that succeeds leaves them.
C13_Step ==
  \A r \in Ids :
    (Completes(r) /\ ~lastSettle'.ok)
      => /\ \A q \in Ids \ {r} :
              /\ SettleCalls(lastSettle'.fx, q) = 0
              /\ result'[q] = result[q]
              /\ settled'[q] = settled[q]
              /\ status'[q] = status[q]
         /\ AsIfSucceeded(r)
C13_FailureIsolated == [][C13_Step]_vars
C13_Witness ==
  /\ lastSettle.r # 0
  /\ ~lastSettle.ok
  /\ \E q \in Ids \ {lastSettle.r} : status[q] \in {"queued", "running"}
  /\ \E q \in Ids \ {lastSettle.r} : result[q] = "settled"

\* ---------------------------------------------------------------------------
\* Construction

\* the value an option has once the defaults are applied
Effective(k, default) == IF k \in DOMAIN options THEN options[k] ELSE default
EffPerSecond == Effective("maxPerSecond", DEFAULT_MAX_PER_SECOND)
EffPerMinute == Effective("maxPerMinute", DEFAULT_MAX_PER_MINUTE)
EffQueueSize == Effective("maxQueueSize", DEFAULT_MAX_QUEUE_SIZE)

C15_QueueSizeValidated ==
  /\ outcome = "instance" => maxQueueSize > 0
  /\ (outcome # "none" /\ EffQueueSize <= 0) => outcome = "InvalidOptionsError"

\* ---------------------------------------------------------------------------
\* getStatus

\* the limiter has nothing queued, no tick in flight and no timeout pending
Quiet ==
  /\ queue = <<>> /\ ~timer
  /\ batches = {} /\ armed = 0 /\ due = 0
  /\ microtasks = <<>> /\ ~locked

\* C16: getStatus changes neither the counters, nor lastMpmRefill, nor the
\* queue, nor the timer, neither when it is called nor when it returns,
\* however long ago the last refill was; what it returns is the queue length,
\* mpsCounter, floor(mpmCounter) and min(mpsCounter, floor(mpmCounter)) of
\* the state it returns in.
C16_Step ==
  /\ numStatus' # numStatus => UNCHANGED <<coreVars, batches, armed, due>>
  /\ lastStatus' # NoStatus
       => /\ UNCHANGED <<coreVars, batches, armed, due>>
          /\ lastStatus'.queueSize = Len(queue')
          /\ lastStatus'.mpsCounter = mpsCounter'
          /\ lastStatus'.mpmCounter = mpmCounter' \div Minute
          /\ lastStatus'.availableRequests
               = Min(mpsCounter', mpmCounter' \div Minute)
NoTickInFlight ==
  /\ \A i \in 1..Len(waitingQueue) : waitingQueue[i].w # "tick"
  /\ early.w # "tick"
  /\ \A i \in 1..Len(microtasks) : microtasks[i].w # "tick"
  /\ batches = {}
Idle ==
  /\ queue = <<>>
  /\ ~timer
  /\ NoTickInFlight
  /\ armed = 0 /\ due = 0

\* C17: once submissions have stopped and every invoked work function has
\* settled, the limiter reaches, and from then on stays in, a state with an
\* empty queue, a null timer, no tick in flight and no timeout scheduled.
C17_DrainsToIdle == <>[]Idle
C17_Witness ==
  /\ Idle
  /\ timerFired
  /\ numSubmitted = MaxLiveRequests
  /\ \A r \in 1..MaxLiveRequests : status[r] = "done"

\* ---------------------------------------------------------------------------
\* Immediate execution

\* C18: a request accepted while the queue is empty and both budgets hold a
\* token has its work function invoked before any time passes, before any
\* timeout fires and before any other work function settles: none of these
\* happens while such a request is still waiting.
C18_Step == (Advance \/ TimerFire \/ Settle) => immediate = {}
C18_TokensAtHandRunNow == [][C18_Step]_vars

\* ---------------------------------------------------------------------------
\* AsyncLock

\* A caller holds the lock from the moment acquire() grants it the release
\* function (at once on a free lock, or in release()'s hand-off) until it
\* calls that function, which it does in the job in which it resumes.
GrantedJobs == { i \in 1..Len(microtasks) : microtasks[i].k \in {"cont", "relay"} }
Holders == Cardinality(GrantedJobs) + (IF early = NoWaiter THEN 0 ELSE 1)
\* who holds the lock, when one caller does
Holder ==
  IF early # NoWaiter THEN <<early.w, early.r>>
  ELSE LET i == CHOOSE i \in GrantedJobs : TRUE
       IN <<microtasks[i].w, microtasks[i].r>>
\* the lock is on its way from a releasing holder to a waiter
HandOff ==
  early # NoWaiter \/ \E i \in 1..Len(microtasks) : microtasks[i].k = "relay"

\* C19: at most one caller holds the lock at any time, and the lock is
\* marked locked as long as one does, also during the hand-off from a
\* releasing holder to the next waiter, so that no other acquire() is
\* granted meanwhile.
C19_MutualExclusion ==
  /\ Holders <= 1
  /\ Holders = 1 => locked
  /\ ~locked => waitingQueue = <<>>
C19_Witness ==
  /\ HandOff
  /\ Holders = 1
  /\ Len(waitingQueue) >= 1
  /\ numSubmitted >= 2

\* the callers waiting for the lock, in the order of their acquire() calls
Waiting(wq) == [i \in 1..Len(wq) |-> <<wq[i].w, wq[i].r>>]
IsPrefix(a, b) == Len(a) <= Len(b) /\ SubSeq(b, 1, Len(a)) = a
\* the job that runs in this step is the holder's, which releases the lock
HolderRuns == RunMicrotask /\ Head(microtasks).k = "cont"

\* C20: the lock is granted in the order of the acquire() calls: a release
\* grants it to the caller that has waited longest, the others keep their
\* order, and a caller arriving while the lock is held or being handed over
\* is queued behind them and granted nothing.
C20_Step ==
  CASE HolderRuns /\ waitingQueue # <<>> ->
         /\ Holders' = 1
         /\ Holder' = Waiting(waitingQueue)[1]
         /\ IsPrefix(Tail(Waiting(waitingQueue)), Waiting(waitingQueue'))
    [] HolderRuns /\ waitingQueue = <<>> -> TRUE
    [] OTHER ->
         /\ IsPrefix(Waiting(waitingQueue), Waiting(waitingQueue'))
         /\ locked => (Holders' = 1 /\ Holder' = Holder)
C20_GrantedInOrder == [][C20_Step]_vars
C20_Witness ==
  /\ HandOff
  /\ Len(waitingQueue) >= 2
  /\ \E i, j \in 1..Len(waitingQueue) : waitingQueue[i].w # waitingQueue[j].w

\* C21: mpsCounter is reset to maxPerSecond at least once in every 1000 ms,
\* whether or not work is queued: whenever time passes with no timeout
\* scheduled (at least half a minute then), a reset has taken place since,
\* and no job has run after it, so the per-second budget is full.
C21_Step == (Advance /\ armed = 0) => mpsCounter' = maxPerSecond
C21_ResetEverySecond == [][C21_Step]_vars

\* C26: every write to mpsCounter, mpmCounter and the queue is made by a job
\* that holds tokenLock at the moment of the write; in particular a tick
\* shifts the queue under the lock hold of its refill.
C26_WritesUnderLock == \A w \in writes : w.held

\* the timerTick executions in flight: each waits for the lock, or holds it,
\* or awaits its processRequest calls, or is about to decide on re-arming
TicksInFlight ==
  Cardinality({ i \in 1..Len(waitingQueue) : waitingQueue[i].w = "tick" })
  + (IF early.w = "tick" THEN 1 ELSE 0)
  + Cardinality({ i \in 1..Len(microtasks) :
                    /\ microtasks[i].w = "tick"
                    /\ microtasks[i].k \in {"cont", "relay", "tickEnd"} })
  + Cardinality(batches)
\* the tick timeouts scheduled: set, and not yet run
Scheduled == armed + due

\* C27: there is at most one drain activity at any time: the ticks in flight
\* and the scheduled tick timeouts together never number more than one.
C27_OneDrainActivity == TicksInFlight + Scheduled <= 1

\* C28: no queued item is stranded: whenever the queue is non-empty, a
\* timerTick is in flight that has not yet decided on re-arming, or a tick
\* timeout is scheduled.
C28_NoItemStranded == queue # <<>> => TicksInFlight + Scheduled >= 1
\* an item pushed after a timer-driven tick went idle, drained by the one tick
\* its addRequest started
C28_Witness ==
  /\ queue # <<>>
  /\ timerFired
  /\ ~timer
  /\ Scheduled = 0
  /\ TicksInFlight = 1

\* the job that runs in this step is a tick's, resumed with the lock
TickRuns ==
  /\ microtasks # <<>>
  /\ Head(microtasks).k = "cont" /\ Head(microtasks).w = "tick"
  /\ RunMicrotask
\* the job that runs in this step is a tick's, resumed after allSettled
TickDecides == RunMicrotask /\ Head(microtasks).k = "tickEnd"
\* the tickEnd jobs waiting to run
Deciding(mt) == Cardinality({ i \in 1..Len(mt) : mt[i].k = "tickEnd" })

\* C29: a tick releases at most min(mpsCounter, floor(mpmCounter)) items,
\* the counters read right after the tick's refill, and the items it releases
\* are the head of the queue in queue order; when that value is 0 or less it
\* releases nothing and goes on to its re-arm decision, and a tick that finds
\* the queue non-empty at that decision schedules a timeout.
C29_Step ==
  /\ TickRuns =>
       LET avail == Min(mpsCounter', FloorMpm(mpmCounter'))
           n == Len(queue) - Len(queue')
       IN /\ n >= 0
          /\ n <= (IF avail <= 0 THEN 0 ELSE avail)
          /\ queue' = SubSeq(queue, n + 1, Len(queue))
          /\ \A i \in 1..n : status[queue[i]] = "queued"
                              /\ status'[queue[i]] = "released"
          /\ \A r \in Ids : status[r] # "released" /\ status'[r] = "released"
                              => \E i \in 1..n : queue[i] = r
          /\ n = 0 => Deciding(microtasks') = Deciding(microtasks) + 1
  /\ TickDecides =>
       IF queue # <<>> THEN timer' /\ armed' = armed + 1
                       ELSE ~timer' /\ armed' = armed
C29_TickReleasesWithinBudget == [][C29_Step]_vars
\* a tick has found no token of the per-minute budget and a waiting item,
\* and is about to decide on re-arming
C29_Witness ==
  /\ queue # <<>>
  /\ mpsCounter = maxPerSecond
  /\ FloorMpm(mpmCounter) <= 0
  /\ Deciding(microtasks) >= 1
  /\ batches = {}
  /\ timerFired

\* the requests addRequest has accepted (ids count the addRequest calls)
Accepted == { r \in Ids : status[r] \notin {"none", "rejected"} }

\* C30: accepted requests begin executing in the order of their addRequest
\* calls: when a request's work function has been invoked, that of every
\* accepted request submitted before it has been invoked too.
C30_StartInSubmissionOrder ==
  \A r1, r2 \in Accepted : r1 < r2 /\ invoked[r2] >= 1 => invoked[r1] >= 1
\* of two requests released, the later by a timeout's tick, the first has
\* been invoked and the second not yet
C30_Witness ==
  \E r1, r2 \in Accepted :
    /\ r1 < r2
    /\ invoked[r1] >= 1 /\ invoked[r2] = 0
    /\ status[r2] = "released"
    /\ timerFired

\* the time since the last refill, in ms
ElapsedMs == elapsed * TICK_MS

\* C22: a tick's refill sets mpmCounter to
\* min(mpmCounter + (elapsedMs / 60000) * maxPerMinute, maxPerMinute) and
\* restarts the measurement of elapsed time (both sides are multiplied by
\* 60000 here; mpmCounter * TICK_MS is 60000 times the program's counter);
\* with maxPerMinute = 10, an empty budget and 30000 ms elapsed the refill
\* yields 5 tokens, and getStatus reports the floor of the budget, 4 after
\* one execution.
C22_Step ==
  /\ RefillTick =>
       /\ mpmCounter' * TICK_MS =
            Min(mpmCounter * TICK_MS + ElapsedMs * maxPerMinute,
                maxPerMinute * MINUTE_IN_MS)
       /\ elapsed' = 0
       /\ (maxPerMinute = 10 /\ mpmCounter = 0 /\ ElapsedMs = 30000)
            => mpmCounter' = 5 * Minute
  /\ (RefillConsume /\ maxPerMinute = 10 /\ mpmCounter = 5 * Minute)
       => mpmCounter' = 4 * Minute
  /\ RefillStatus =>
       /\ lastStatus'.mpmCounter * Minute <= mpmCounter
       /\ mpmCounter < (lastStatus'.mpmCounter + 1) * Minute
       /\ mpmCounter = 4 * Minute => lastStatus'.mpmCounter = 4
C22_RefillProportional == [][C22_Step]_vars
\* the example: half a minute after a refill that left less than a token of
\* ten, five are back, one is taken and getStatus reports 4
C22_Witness ==
  /\ maxPerMinute = 10
  /\ mpmCounter = 4 * Minute
  /\ mpsCounter = 0
  /\ elapsed = 0
  /\ lastStatus # NoStatus
  /\ lastStatus.mpmCounter = 4

\* a step that is an addRequest call, and the request it submits
Submits == numSubmitted' # numSubmitted
Submitted == numSubmitted'

\* C23 (sliding-window limiter): the queue never holds more than
\* maxQueueSize items; an addRequest call that finds maxQueueSize items in
\* the queue is rejected with QueueFullError and enqueues nothing, any other
\* is accepted; with maxQueueSize = 1, of three requests submitted
\* back-to-back the first is executing, the second queued, the third
\* rejected.
C23_Step ==
  /\ Len(queue') <= maxQueueSize
  /\ (Submits /\ Len(queue) >= maxQueueSize) =>
       /\ result'[Submitted] = "QueueFull"
       /\ status'[Submitted] = "rejected"
       /\ queue' = queue
       /\ invoked' = invoked
  /\ (Submits /\ Len(queue) < maxQueueSize) =>
       /\ result'[Submitted] = "pending"
       /\ \/ queue' = Append(queue, Submitted)
          \/ invoked'[Head(Append(queue, Submitted))] = 1
  /\ (sync' /\ numSubmitted' = 3 /\ maxQueueSize = 1) =>
       /\ invoked' = [r \in Ids |-> IF r = 1 THEN 1 ELSE 0]
       /\ queue' = <<2>>
       /\ result'[3] = "QueueFull"
C23_SlidingQueueBounded == [][C23_Step]_vars
C23_Witness ==
  /\ sync
  /\ maxQueueSize = 1
  /\ numSubmitted = 3
  /\ queue = <<2>>
  /\ status[1] \in {"running", "settling"}
  /\ result[3] = "QueueFull"

\* C24 (sliding-window limiter): within any interval of 1000 ms no more
\* than maxPerSecond work functions begin executing, however long the
\* requests take (the interval that ends now, in every state).
C24_SlidingPerSecondCeiling ==
  Cardinality({ r \in Ids : age[r] = 0 }) <= maxPerSecond

\* the work functions invoked in this step
Invocations ==
  Cardinality({ r \in Ids : invoked'[r] = invoked[r] + 1 })

\* C25 (trickle-recovery limiter): every executed request takes one token
\* of each counter, so that three back-to-back submissions with
\* maxPerSecond = 2 leave one request queued and no request available.
C25_Step ==
  /\ Submits =>
       /\ mpsCounter' = mpsCounter - Invocations
       /\ mpmCounter' = mpmCounter - Invocations * Minute
  /\ (sync' /\ numSubmitted' = 3 /\ maxPerSecond = 2) =>
       /\ Len(queue') = 1
       /\ TrAvailableRequests(mpsCounter', mpmCounter') = 0
C25_ExecutionTakesTokens == [][C25_Step]_vars

\* the job that runs in this step is a processRequest call's, resumed with
\* the lock, for request r
ProcRuns(r) ==
  /\ microtasks # <<>>
  /\ Head(microtasks).k = "cont" /\ Head(microtasks).w = "proc"
  /\ Head(microtasks).r = r
  /\ RunMicrotask

\* C31: each released request takes exactly one token of each budget, once,
\* in the job that invokes its work function, which is the only invocation
\* of that work function; and nothing but a tick's refill writes the
\* counters otherwise, so that a failed work function returns no token and
\* the counters are lower than after the last refill by the number of
\* requests executed since.
C31_Step ==
  /\ \A r \in Ids :
       ProcRuns(r) =>
         /\ mpsCounter' = mpsCounter - 1
         /\ mpmCounter' = mpmCounter - Minute
         /\ invoked[r] = 0 /\ invoked'[r] = 1
  /\ \A r \in Ids : invoked'[r] # invoked[r] => ProcRuns(r)
  /\ \/ UNCHANGED <<mpsCounter, mpmCounter>>
     \/ TickRuns
     \/ \E r \in Ids : ProcRuns(r)
  /\ TickRuns => mpsCounter' = maxPerSecond /\ mpmCounter' >= mpmCounter
C31_OneTokenPerRelease == [][C31_Step]_vars
\* a work function has failed, and its tokens are still taken
C31_Witness ==
  /\ lastSettle.r # 0
  /\ ~lastSettle.ok
  /\ mpsCounter = maxPerSecond - 1
  /\ mpmCounter = (maxPerMinute - 1) * Minute

\* C32: the drain loop is not blocked by a released request's work: as long
\* as a request is queued, ticks keep firing every 1000 ms, so that whenever
\* time passes over a non-empty queue a tick timeout is scheduled, whether
\* or not released requests are still running.
C32_Step == (Advance /\ queue # <<>>) => armed >= 1
C32_LoopNotBlockedByWork == [][C32_Step]_vars

\* C33: the items a tick releases are started without waiting for one
\* another: every released request has its work function invoked once the
\* ready jobs have run, whether or not the work functions invoked before it
\* ever settle.
C33_ReleasedIsInvoked ==
  \A r \in 1..MaxLiveRequests : (status[r] = "released") ~> (invoked[r] >= 1)
\* a tick has released two items; the first is running, not settled, and
\* the second has been invoked
C33_Witness ==
  \E b \in batches : \E x, y \in b :
    /\ x < y
    /\ status[x] = "running"
    /\ invoked[y] >= 1

\* nobody holds the lock or waits for it
LockFree == ~locked /\ waitingQueue = <<>> /\ early = NoWaiter

\* C34: every acquisition of tokenLock is followed by its release with no
\* wait in between: whenever the limiter waits (for a work function or a
\* timer, no job being ready) the lock is free and nobody waits for it, and
\* whoever holds or awaits the lock is through with it once the ready jobs
\* have run, whether or not the work functions ever settle.
C34_LockHeldBriefly ==
  /\ [](microtasks = <<>> => LockFree)
  /\ (~LockFree) ~> LockFree
\* getStatus has just been through the lock while a work function, started
\* after its own passage through the lock, is running and has not settled
C34_Witness ==
  /\ LockFree
  /\ lastStatus # NoStatus
  /\ \E r \in Ids :
       status[r] = "running" /\ invoked[r] = 1 /\ result[r] = "pending"

\* no addRequest call has got as far as its Promise executor
NoneQueuedYet == \A r \in Ids : status[r] \in {"none", "rejected", "acquiring"}
\* no tick is in flight and no tick timeout is scheduled
NoDrain == ~timer /\ TicksInFlight = 0 /\ Scheduled = 0
\* the job at the head of the job queue is addRequest resumed with the lock
AddRuns ==
  /\ RunMicrotask
  /\ Head(microtasks).k = "cont" /\ Head(microtasks).w = "add"

C35_Step == (NoDrain /\ ~NoDrain') => AddRuns

\* C35: as long as no addRequest call has queued its item, the limiter is as
\* constructed: both counters at their maxima, the queue empty, no timer, no
\* tick in flight and no timeout scheduled, and the lock free unless a
\* getStatus or addRequest call is passing through it; getStatus calls leave
\* all of that alone, and a tick is started from that state by addRequest only.
C35_LazyTimer ==
  /\ [](NoneQueuedYet =>
          /\ NoDrain
          /\ queue = <<>>
          /\ mpsCounter = maxPerSecond
          /\ mpmCounter = maxPerMinute * Minute
          /\ (numStatus = 0 /\ numSubmitted = 0 => LockFree))
  /\ [][C35_Step]_vars
\* every getStatus call has returned, time has passed and no request was
\* ever submitted
C35_Witness ==
  /\ numSubmitted = 0
  /\ ~sync
  /\ numStatus = MaxStatusCalls
  /\ LockFree
  /\ NoDrain

\* C36: the availableRequests value getStatus returns is never negative.
C36_AvailableNeverNegative ==
  lastStatus # NoStatus => lastStatus.availableRequests >= 0

\* C37: neither counter ever exceeds its cap: mpsCounter <= maxPerSecond and
\* mpmCounter <= maxPerMinute, whatever time passed between two refills and
\* however many ticks ran.
C37_CountersCapped ==
  /\ mpsCounter <= maxPerSecond
  /\ mpmCounter <= maxPerMinute * Minute
\* a tick has just reset the per-second budget and refilled the per-minute
\* budget to its cap
C37_Witness ==
  /\ writes = {Write("mpsCounter", TRUE), Write("mpmCounter", TRUE)}
  /\ elapsed = 0
  /\ mpsCounter = maxPerSecond
  /\ mpmCounter = maxPerMinute * Minute
  /\ maxPerMinute = MaxRefillPerMinute

C38_Step ==
  /\ (timer /\ ~timer') =>
       /\ queue = <<>> /\ lastSecondRequests = <<>> /\ lastMinuteRequests = <<>>
       /\ queue' = <<>> /\ lastSecondRequests' = <<>>
       /\ lastMinuteRequests' = <<>>
       /\ armed' = 0 /\ due' = 0
  /\ (Submits /\ ~timer) => (timer' /\ armed' = 1 /\ status'[Submitted] # "rejected")

\* C38: in the sliding-window limiter, when submissions have stopped and
\* the work functions settle, the interval timer is eventually cancelled;
\* it is cancelled only when the queue and both deques are empty; and an
\* addRequest call that finds no timer sets a new one.
C38_TimerEventuallyCancelled ==
  /\ timer ~> ~timer
  /\ [][C38_Step]_vars
\* every request submitted has been run and has settled, a minute has passed
\* since, and the timer is cancelled
C38_Witness ==
  /\ ~timer
  /\ timerFired
  /\ numSubmitted = MaxSwLiveRequests
  /\ \A r \in 1..MaxSwLiveRequests : status[r] = "done" /\ settled[r] = 1
  /\ lastMinuteRequests = <<>>

\* the processQueue passes in progress: each is awaiting a work function, or
\* has a job ready (processRequest, the helper or processQueue to resume)
PassesInProgress ==
  Cardinality({ r \in Ids : status[r] = "running" })
  + Cardinality({ i \in 1..Len(microtasks) :
                    microtasks[i].k \in {"workDone", "helper", "finish"} })

C39_Step ==
  (isProcessing /\ (SwTimerFire \/ Submits)) =>
    /\ isProcessing'
    /\ queue' = queue \/ (Submits /\ queue' = Append(queue, Submitted))
    /\ UNCHANGED <<lastSecondRequests, lastMinuteRequests, pass, invoked,
                   microtasks>>

\* C39: in the sliding-window limiter at most one processQueue pass is in
\* progress; isProcessing is true exactly while one is, also when the pass
\* ends with an exception; and a timer callback or an addRequest call
\* arriving during a pass dequeues nothing, starts nothing and leaves
\* isProcessing alone.
C39_OnePass ==
  /\ [](PassesInProgress <= 1 /\ isProcessing = (PassesInProgress = 1))
  /\ [][C39_Step]_vars
\* the interval's callback has run during a pass that is awaiting a work
\* function, with a request waiting in the queue
C39_Witness ==
  /\ isProcessing
  /\ microtasks = <<>>
  /\ pass.age >= 1
  /\ due = 0
  /\ queue # <<>>
  /\ pass.i + 1 < pass.avail
  /\ \E r \in Ids : status[r] = "running"

====
